---- MODULE Spec2Model ----
(***************************************************************************)
(* Model of agent_planner.py: the normalizer, the deduplicator, the scorer *)
(* and the radius-expansion loop of run_agent_search.                      *)
(*                                                                         *)
(* Conventions                                                             *)
(*   - Optional[T]: None is <<>>, a present value v is <<v>>.              *)
(*   - A raw record (a Python dict) is a function whose DOMAIN is the set  *)
(*     of keys the dict carries.                                           *)
(*   - Latitudes and longitudes are integers in units of 1/11,100,000      *)
(*     degree, so that (delta * 111000) metres is delta/100 exactly: one   *)
(*     unit is one centimetre of the flat-earth approximation.             *)
(*   - Ratings are integers in tenths (4.5 is 45).                         *)
(*   - Confidence is an integer in thousandths (0.913 is 913).             *)
(***************************************************************************)
EXTENDS Integers, Sequences, FiniteSets, TLC

\* ---- Configuration (agent_planner.py:25-26, 222, 236) ----
MIN_RESULTS_THRESHOLD == 3
MAX_EXPANSIONS == 2
DEDUPE_THRESHOLD == 85
PROXIMITY_M == 40

\* ---- Bounds of the model ----
MaxMaxExpansions == 2

\* ---- Optional values and Python truthiness ----
None == <<>>
Some(v) == <<v>>
IsNone(o) == o = <<>>
Val(o) == o[1]

\* item.get(k): the value under k, or None
Get(item, k) == IF k \in DOMAIN item THEN Some(item[k]) ELSE None

Range(s) == {s[i] : i \in 1..Len(s)}

Abs(x) == IF x < 0 THEN -x ELSE x
Max(a, b) == IF a >= b THEN a ELSE b

\* int(x) of a non-negative rational n/d, and of a possibly negative one
\* (Python's int truncates toward zero)
IntTrunc(n, d) == IF n >= 0 THEN n \div d ELSE -((-n) \div d)

RECURSIVE IsqrtBin(_, _, _)
IsqrtBin(n, lo, hi) ==
    IF lo >= hi THEN lo
    ELSE LET mid == (lo + hi + 1) \div 2
         IN IF mid * mid <= n THEN IsqrtBin(n, mid, hi) ELSE IsqrtBin(n, lo, mid - 1)
\* floor(sqrt(n)) for 0 <= n < 2^31
Isqrt(n) == IsqrtBin(n, 0, 46340)

\* ---- Strings ----
\* A raw list entry that is not a Python str (a number, None) is written as
\* this token; isinstance(c, str) is false of it alone.
NonStrEntry == "<non-str>"
IsStr(c) == c # NonStrEntry

\* str.lower() on the tag vocabulary of the model
Lower(c) ==
    CASE c = "Italian" -> "italian"
      [] c = "PIZZA" -> "pizza"
      [] c = "Vegetarian" -> "vegetarian"
      [] OTHER -> c

\* list(set(xs)): the distinct entries of xs in some order (Python leaves the
\* order of a set unspecified; nothing in the program reads it)
RECURSIVE SetToSeq(_)
SetToSeq(S) == IF S = {} THEN <<>>
               ELSE LET x == CHOOSE y \in S : TRUE IN <<x>> \o SetToSeq(S \ {x})
ListOfSet(xs) == SetToSeq(Range(xs))

\* [f(c) for c in xs if keep(c)]
RECURSIVE LowerStrs(_)
LowerStrs(xs) ==
    IF xs = <<>> THEN <<>>
    ELSE (IF IsStr(Head(xs)) THEN <<Lower(Head(xs))>> ELSE <<>>) \o LowerStrs(Tail(xs))

\* ---- Normalizer (agent_planner.py:180-220) ----
\* The value the model gives time.time(): time does not advance in the model.
Now == 1000

\* A Python exception leaving the function
Raise(kind) == [exc |-> kind]
IsExc(x) == "exc" \in DOMAIN x

\* item.get("id") or item.get("place_id") or ""
SourceId(item) ==
    IF "id" \in DOMAIN item /\ item["id"] # "" THEN item["id"]
    ELSE IF "place_id" \in DOMAIN item /\ item["place_id"] # "" THEN item["place_id"]
    ELSE ""

\* lines 188-193: int(item["price_level"]), else len(item["price"]), else None
PriceLevel(item) ==
    IF "price_level" \in DOMAIN item THEN Some(item["price_level"])
    ELSE IF "price" \in DOMAIN item THEN Some(Len(item["price"]))
    ELSE None

\* lines 194-198: types, then categories appended
RawCuisines(item) ==
    (IF "types" \in DOMAIN item THEN item["types"] ELSE <<>>)
    \o (IF "categories" \in DOMAIN item THEN item["categories"] ELSE <<>>)

\* line 210: list(set([c.lower() for c in cuisines if isinstance(c,str)]))
NormCuisines(item) == ListOfSet(LowerStrs(RawCuisines(item)))

\* line 212: float(rating) if rating else None  (a rating of 0 is falsy)
NormRating(item) ==
    IF "rating" \in DOMAIN item /\ item["rating"] # 0 THEN Some(item["rating"]) ELSE None

\* lines 182-184 and 187-219: the Place built from a record that has coordinates
NormalizePlace(item) ==
    [name |-> Get(item, "name"),
     address |-> IF "address" \in DOMAIN item THEN item["address"] ELSE "",
     lat |-> item["lat"],
     lon |-> item["lon"],
     price_level |-> PriceLevel(item),
     cuisines |-> NormCuisines(item),
     dietary_tags |-> <<>>,
     rating |-> NormRating(item),
     source |-> IF "provider" \in DOMAIN item THEN item["provider"] ELSE "unknown",
     source_id |-> SourceId(item),
     last_checked_ts |-> IF "ts" \in DOMAIN item THEN item["ts"] ELSE Now,
     raw |-> item,
     merged_raw |-> <<>>,     \* raw["_merged_raw"]; <<>> while the key is absent
     distance_m |-> None,
     confidence |-> None]

\* lines 185-186: float(item.get("lat")) and float(item.get("lon")) raise
\* TypeError on None
LacksCoords(item) == "lat" \notin DOMAIN item \/ "lon" \notin DOMAIN item

\* a normalizer that reads a missing coordinate as 0
NormalizeCoercing(item) ==
    NormalizePlace([k \in DOMAIN item \cup {"lat", "lon"} |->
                       IF k \in DOMAIN item THEN item[k] ELSE 0])

\* line 193: len(item["price"]) raises TypeError on a value that has no
\* length (None, a number); it is reached when "price_level" is absent
PriceHasNoLen(item) ==
    /\ "price_level" \notin DOMAIN item
    /\ "price" \in DOMAIN item
    /\ ~IsStr(item["price"])

\* a normalizer that accepts only "$" to "$$$$" as a price string
NormalizeValidatingPrice(item) ==
    IF LacksCoords(item) \/ PriceHasNoLen(item) THEN Raise("TypeError")
    ELSE IF "price_level" \notin DOMAIN item /\ "price" \in DOMAIN item
            /\ item["price"] \notin {"$", "$$", "$$$", "$$$$"}
         THEN Raise("ValueError")
    ELSE NormalizePlace(item)

normalize_provider_item(item) ==
    IF LacksCoords(item) \/ PriceHasNoLen(item) THEN Raise("TypeError")
    ELSE NormalizePlace(item)

\* line 308 / 328: [normalize_provider_item(r) for r in results_raw]; the list
\* comprehension raises at the first record that raises.  The value is
\* Raise(..) or [places |-> the list].
RECURSIVE NormalizeAll(_)
NormalizeAll(raws) ==
    IF raws = <<>> THEN [places |-> <<>>]
    ELSE LET p == normalize_provider_item(Head(raws))
         IN IF IsExc(p) THEN p
            ELSE LET rest == NormalizeAll(Tail(raws))
                 IN IF IsExc(rest) THEN rest ELSE [places |-> <<p>> \o rest.places]

\* ---- Deduplicator (agent_planner.py:222-250) ----
\* rapidfuzz.fuzz.token_sort_ratio on the names of the model, in hundredths
\* (96.55 is 9655): split on whitespace, sort the tokens, join with one space,
\* then 100 * 2 * LCS / (len(a) + len(b)).  None compares as 0.
NameKey(n) ==
    CASE n = "Luigi's Italian" -> 1
      [] n = "Italian Luigi's" -> 1      \* same sorted tokens
      [] n = "Luigis Italian" -> 2
      [] n = "Luigi's Italian Bar" -> 3
      [] n = "Tiny Taco" -> 4
      [] n = "Green Leaf Vegetarian" -> 5
      [] n = "Casa Bonita Grill" -> 6
      [] n = "Casa Bonita Grill Diner" -> 7   \* 2 * 17 / 40: exactly 85
      [] OTHER -> 0

SimTable ==
    << <<10000,  9655,  8824,  2500,  2778,  3125,  3158>>,
       << 9655, 10000,  8485,  2609,  2857,  3226,  3243>>,
       << 8824,  8485, 10000,  2857,  3500,  3889,  3810>>,
       << 2500,  2609,  2857, 10000,  2667,  2308,  2500>>,
       << 2778,  2857,  3500,  2667, 10000,  3158,  3182>>,
       << 3125,  3226,  3889,  2308,  3158, 10000,  8500>>,
       << 3158,  3243,  3810,  2500,  3182,  8500, 10000>> >>

token_sort_ratio(a, b) ==
    IF IsNone(a) \/ IsNone(b) THEN 0
    ELSE IF Val(a) = Val(b) THEN 10000
    ELSE IF NameKey(Val(a)) = 0 \/ NameKey(Val(b)) = 0 THEN 0
    ELSE SimTable[NameKey(Val(a))][NameKey(Val(b))]

\* lines 233-235: dist ** 2 in square centimetres
ApproxDistSq(p, m) ==
    (Abs(p.lat - m.lat)) * (Abs(p.lat - m.lat)) + (Abs(p.lon - m.lon)) * (Abs(p.lon - m.lon))

\* the merge condition with "dist <= 40"
IsDuplicateInclusive(p, m, dedupe_threshold) ==
    /\ token_sort_ratio(p.name, m.name) >= dedupe_threshold * 100
    /\ ApproxDistSq(p, m) <= (PROXIMITY_M * 100) * (PROXIMITY_M * 100)

\* line 236: name_sim >= dedupe_threshold and dist < 40
IsDuplicate(p, m, dedupe_threshold) ==
    /\ token_sort_ratio(p.name, m.name) >= dedupe_threshold * 100
    /\ ApproxDistSq(p, m) < (PROXIMITY_M * 100) * (PROXIMITY_M * 100)

\* a rating that is truthy in Python: present and not 0
Truthy(r) == ~IsNone(r) /\ Val(r) # 0

\* a merge in which the incoming rating always wins
MergeIntoLastRating(m, p) ==
    [m EXCEPT
       !.cuisines = ListOfSet(m.cuisines \o p.cuisines),
       !.dietary_tags = ListOfSet(m.dietary_tags \o p.dietary_tags),
       !.rating = p.rating,
       !.merged_raw = (IF m.merged_raw = <<>> THEN <<m.raw>> ELSE m.merged_raw)
                      \o <<p.raw>>]

\* a merge that starts the provenance list without the anchor's own record
MergeIntoNoSelf(m, p) ==
    [m EXCEPT
       !.cuisines = ListOfSet(m.cuisines \o p.cuisines),
       !.dietary_tags = ListOfSet(m.dietary_tags \o p.dietary_tags),
       !.rating = IF Truthy(p.rating) /\ (IsNone(m.rating) \/ Val(p.rating) > Val(m.rating))
                  THEN p.rating ELSE m.rating,
       !.merged_raw = m.merged_raw \o <<p.raw>>]

\* a merge in which the anchor also takes the incoming place's price level
\* and address when it has none of its own
MergeIntoFillingGaps(m, p) ==
    [m EXCEPT
       !.cuisines = ListOfSet(m.cuisines \o p.cuisines),
       !.dietary_tags = ListOfSet(m.dietary_tags \o p.dietary_tags),
       !.rating = IF Truthy(p.rating) /\ (IsNone(m.rating) \/ Val(p.rating) > Val(m.rating))
                  THEN p.rating ELSE m.rating,
       !.price_level = IF IsNone(m.price_level) THEN p.price_level ELSE m.price_level,
       !.address = IF m.address = "" THEN p.address ELSE m.address,
       !.merged_raw = (IF m.merged_raw = <<>> THEN <<m.raw>> ELSE m.merged_raw)
                      \o <<p.raw>>]

\* lines 238-245 as seen from the incoming place: nothing is assigned to p,
\* and p.raw is appended to the anchor's list by reference, not changed
DuplicateAfterMerge(m, p) == p

\* lines 238-245: the merge of p into the anchor m
MergeInto(m, p) ==
    [m EXCEPT
       !.cuisines = ListOfSet(m.cuisines \o p.cuisines),
       !.dietary_tags = ListOfSet(m.dietary_tags \o p.dietary_tags),
       !.rating = IF Truthy(p.rating) /\ (IsNone(m.rating) \/ Val(p.rating) > Val(m.rating))
                  THEN p.rating ELSE m.rating,
       !.merged_raw = (IF m.merged_raw = <<>> THEN <<m.raw>> ELSE m.merged_raw)
                      \o <<p.raw>>]

\* an inner loop that looks at the most recent anchor only
OnlyNewestAnchor(p, merged, i, dedupe_threshold) ==
    IF merged # <<>> /\ IsDuplicate(p, merged[Len(merged)], dedupe_threshold)
    THEN Len(merged) ELSE 0

\* an inner loop without the break: the last matching anchor wins
RECURSIVE LastMatchFrom(_, _, _, _)
LastMatchFrom(p, merged, i, dedupe_threshold) ==
    IF i > Len(merged) THEN 0
    ELSE LET later == LastMatchFrom(p, merged, i + 1, dedupe_threshold)
         IN IF later # 0 THEN later
            ELSE IF IsDuplicate(p, merged[i], dedupe_threshold) THEN i ELSE 0

\* lines 230-247: index of the first anchor p is a duplicate of, or 0
RECURSIVE FirstMatchFrom(_, _, _, _)
FirstMatchFrom(p, merged, i, dedupe_threshold) ==
    IF i > Len(merged) THEN 0
    ELSE IF IsDuplicate(p, merged[i], dedupe_threshold) THEN i
    ELSE FirstMatchFrom(p, merged, i + 1, dedupe_threshold)

\* an outer loop that puts a new anchor at the front of merged
DedupeStepPrepend(merged, p, dedupe_threshold) ==
    LET i == FirstMatchFrom(p, merged, 1, dedupe_threshold)
    IN IF i = 0 THEN <<p>> \o merged
       ELSE [merged EXCEPT ![i] = MergeInto(merged[i], p)]

\* one iteration of the outer loop, lines 228-249
DedupeStep(merged, p, dedupe_threshold) ==
    LET i == FirstMatchFrom(p, merged, 1, dedupe_threshold)
    IN IF i = 0 THEN Append(merged, p)
       ELSE [merged EXCEPT ![i] = MergeInto(merged[i], p)]

RECURSIVE DedupeFrom(_, _, _)
DedupeFrom(merged, places, dedupe_threshold) ==
    IF places = <<>> THEN merged
    ELSE DedupeFrom(DedupeStep(merged, Head(places), dedupe_threshold),
                    Tail(places), dedupe_threshold)

dedupe_and_merge(places) == DedupeFrom(<<>>, places, DEDUPE_THRESHOLD)

\* ---- Scorer (agent_planner.py:253-290) ----
\* a list that is truthy in Python: not None and not empty
TruthyList(o) == ~IsNone(o) /\ Val(o) # <<>>

\* lines 260-262: int((dx**2 + dy**2) ** 0.5) in metres
DistanceM(p, user_query) ==
    Isqrt(((Abs(p.lat - user_query.lat)) * (Abs(p.lat - user_query.lat))
           + (Abs(p.lon - user_query.lon)) * (Abs(p.lon - user_query.lon))) \div 10000)

\* a match that compares the query's strings without lowering them
MatchScoreCaseSensitive(p, user_query) ==
    LET cuisineMiss ==
            /\ TruthyList(user_query.cuisines)
            /\ ~\E i \in 1..Len(Val(user_query.cuisines)) :
                    Val(user_query.cuisines)[i] \in Range(p.cuisines)
        dietMiss ==
            /\ TruthyList(user_query.dietary_restrictions)
            /\ ~\E i \in 1..Len(Val(user_query.dietary_restrictions)) :
                    Val(user_query.dietary_restrictions)[i] \in Range(p.dietary_tags)
        m1 == IF cuisineMiss THEN (10000 * 6) \div 10 ELSE 10000
    IN IF dietMiss THEN (m1 * 85) \div 100 ELSE m1

\* lines 266-272: match_score in 1/10000
MatchScore(p, user_query) ==
    LET cuisineMiss ==
            /\ TruthyList(user_query.cuisines)
            /\ ~\E i \in 1..Len(Val(user_query.cuisines)) :
                    Lower(Val(user_query.cuisines)[i]) \in Range(p.cuisines)
        dietMiss ==
            /\ TruthyList(user_query.dietary_restrictions)
            /\ ~\E i \in 1..Len(Val(user_query.dietary_restrictions)) :
                    Lower(Val(user_query.dietary_restrictions)[i]) \in Range(p.dietary_tags)
        m1 == IF cuisineMiss THEN (10000 * 6) \div 10 ELSE 10000
    IN IF dietMiss THEN (m1 * 85) \div 100 ELSE m1

\* lines 276-282
PriceOk(p, user_query) ==
    /\ (~IsNone(user_query.budget_min)) =>
            ~(IsNone(p.price_level) \/ Val(p.price_level) < Val(user_query.budget_min))
    /\ (~IsNone(user_query.budget_max)) =>
            ~(IsNone(p.price_level) \/ Val(p.price_level) > Val(user_query.budget_max))

\* round(n/d) for n >= 0, d > 0, ties to even
RoundDiv(n, d) ==
    LET q == n \div d
        r == n % d
    IN IF 2 * r > d THEN q + 1
       ELSE IF 2 * r < d THEN q
       ELSE IF q % 2 = 0 THEN q ELSE q + 1

\* a distance term without the max(0.0, ...)
DistancePenaltyUnclamped(dist, D) == D - dist

\* line 275: max(0.0, 1 - dist / D) as a numerator over D = max(1, 2 * radius_m)
DistancePenaltyNum(dist, D) == Max(0, D - dist)

\* a confidence in which an unrated place counts as rated 0
ConfidenceUnratedZero(p, user_query, dist) ==
    LET rating10 == IF Truthy(p.rating) THEN Val(p.rating) ELSE 0
        D == Max(1, user_query.radius_m * 2)
        fixed == 4 * MatchScore(p, user_query) * D
                 + 600 * rating10 * D
                 + (IF PriceOk(p, user_query) THEN 10000 ELSE 7000) * D
        dpen == 20000 * DistancePenaltyNum(dist, D)
    IN RoundDiv(fixed + dpen, 100 * D)

\* line 274-287: the confidence in thousandths.  0.4*match is match/25
\* thousandths, 0.3*(rating/5) is 6 thousandths per tenth of rating, and
\* 0.2*distance_penalty is 200*(D - dist)/D with D = max(1, 2*radius).
Confidence(p, user_query, dist) ==
    LET rating10 == IF Truthy(p.rating) THEN Val(p.rating) ELSE 30
        D == Max(1, user_query.radius_m * 2)
        fixed == 4 * MatchScore(p, user_query) * D
                 + 600 * rating10 * D
                 + (IF PriceOk(p, user_query) THEN 10000 ELSE 7000) * D
        dpen == 20000 * DistancePenaltyNum(dist, D)
    IN RoundDiv(fixed + dpen, 100 * D)

\* lines 258-287: the fields one place gets
Scored(p, user_query) ==
    LET dist == DistanceM(p, user_query)
    IN [p EXCEPT !.distance_m = Some(dist),
                 !.confidence = Some(Confidence(p, user_query, dist))]

\* line 290: the sort key (x.confidence or 0, x.rating or 0)
KeyGE(a, b) ==
    LET ca == IF IsNone(a.confidence) THEN 0 ELSE Val(a.confidence)
        cb == IF IsNone(b.confidence) THEN 0 ELSE Val(b.confidence)
        ra == IF IsNone(a.rating) THEN 0 ELSE Val(a.rating)
        rb == IF IsNone(b.rating) THEN 0 ELSE Val(b.rating)
    IN ca > cb \/ (ca = cb /\ ra >= rb)

\* a descending sort that puts x before the elements with a key equal to its own
RECURSIVE InsertDescUnstable(_, _)
InsertDescUnstable(sorted, x) ==
    IF sorted = <<>> THEN <<x>>
    ELSE IF KeyGE(x, Head(sorted)) THEN <<x>> \o sorted
    ELSE <<Head(sorted)>> \o InsertDescUnstable(Tail(sorted), x)

\* list.sort(key=..., reverse=True): descending and stable, so x goes after
\* every element whose key is >= its own
RECURSIVE InsertDesc(_, _)
InsertDesc(sorted, x) ==
    IF sorted = <<>> THEN <<x>>
    ELSE IF KeyGE(Head(sorted), x) THEN <<Head(sorted)>> \o InsertDesc(Tail(sorted), x)
    ELSE <<x>> \o sorted

RECURSIVE SortDesc(_, _)
SortDesc(sorted, rest) ==
    IF rest = <<>> THEN sorted ELSE SortDesc(InsertDesc(sorted, Head(rest)), Tail(rest))

compute_scores(places, user_query) ==
    SortDesc(<<>>, [i \in 1..Len(places) |-> Scored(places[i], user_query)])

\* ---- Planner (agent_planner.py:82-112) ----
\* x or default, for an Optional integer (0 is falsy)
OrInt(o, default) == IF IsNone(o) \/ Val(o) = 0 THEN default ELSE Val(o)
\* x or default, for an Optional list ([] is falsy)
OrList(o, default) == IF TruthyList(o) THEN Val(o) ELSE default

call_llm_planner(uq) ==
    [lat |-> uq.lat,
     lon |-> uq.lon,
     radius_m |-> uq.radius_m,
     budget_min |-> OrInt(uq.budget_min, 0),
     budget_max |-> OrInt(uq.budget_max, 4),
     cuisines |-> OrList(uq.cuisines, <<>>),
     dietary_restrictions |-> OrList(uq.dietary_restrictions, <<>>),
     preferred_sources |-> OrList(uq.preferred_sources, <<"google", "yelp">>),
     limit_per_source |-> uq.limit_per_source,
     expand_on_insufficient_results |-> uq.expand_on_insufficient_results]

\* ---- Provider stubs (agent_planner.py:115-177) ----
\* 0.001 degree is 11100 units, 0.0012 is 13320, and so on
call_google_places_stub(args) ==
    << [provider |-> "google", id |-> "g_1", name |-> "Luigi's Italian",
        address |-> "123 Pasta St", lat |-> args.lat + 11100, lon |-> args.lon + 13320,
        price_level |-> 2, types |-> <<"restaurant", "italian">>, rating |-> 45,
        raw |-> [sim |-> TRUE], ts |-> Now],
       [provider |-> "google", id |-> "g_2", name |-> "Green Leaf Vegetarian",
        address |-> "5 Garden Ave", lat |-> args.lat + 5550, lon |-> args.lon - 6660,
        price_level |-> 1, types |-> <<"restaurant", "vegetarian">>, rating |-> 42,
        raw |-> [sim |-> TRUE], ts |-> Now] >>

call_yelp_stub(args) ==
    << [provider |-> "yelp", id |-> "y_9", name |-> "Luigi's Italian",
        address |-> "123 Pasta St", lat |-> args.lat + 11322, lon |-> args.lon + 13098,
        price |-> "$$", categories |-> <<"italian", "pizza">>, rating |-> 40,
        raw |-> [sim |-> TRUE], ts |-> Now],
       [provider |-> "yelp", id |-> "y_11", name |-> "Tiny Taco",
        address |-> "88 Salsa Blvd", lat |-> args.lat - 16650, lon |-> args.lon - 9990,
        price |-> "$", categories |-> <<"mexican">>, rating |-> 41,
        raw |-> [sim |-> TRUE], ts |-> Now] >>

\* ---- Fetch collaborators ----
\* The stubs stand for real provider calls ("replace with real API call"), whose
\* answer the program does not control.  A call of a collaborator returns one
\* of these lists of raw records, or raises.
GoogleOdd(args) ==
    [provider |-> "google", place_id |-> "ChIJ7", id |-> "", name |-> "Luigis Italian",
     lat |-> args.lat + 11200, lon |-> args.lon + 13200,
     price_level |-> 7, types |-> <<"Italian", "italian", "", NonStrEntry>>, rating |-> 0]

GoogleNoLat(args) ==
    [provider |-> "google", id |-> "g_3", name |-> "Tiny Taco", lon |-> args.lon - 9990,
     price_level |-> 1, types |-> <<"mexican">>, rating |-> 39, ts |-> Now]

YelpOdd(args) ==
    [lat |-> args.lat + 11100, lon |-> args.lon + 13320,
     price |-> "$$$$$", categories |-> <<"PIZZA", "">>, rating |-> 48]

YelpNoLon(args) ==
    [provider |-> "yelp", id |-> "y_12", name |-> "Green Leaf Vegetarian",
     lat |-> args.lat + 5550, price |-> "$", categories |-> <<"vegetarian">>]

GoogleReturns(args) ==
    { call_google_places_stub(args),
      <<>>,
      <<call_google_places_stub(args)[1]>>,
      <<GoogleOdd(args), call_google_places_stub(args)[1]>>,
      <<call_google_places_stub(args)[2], GoogleNoLat(args)>> }

YelpReturns(args) ==
    { call_yelp_stub(args),
      <<>>,
      <<call_yelp_stub(args)[1]>>,
      <<YelpOdd(args), call_yelp_stub(args)[1]>>,
      <<YelpNoLon(args)>> }

FetchReturns(src, args) ==
    IF src = "google" THEN GoogleReturns(args) ELSE YelpReturns(args)

\* ---- Queries the caller may pass ----
Radii == {0, 1, 2, 800}
SourceLists == { None, Some(<<"google">>), Some(<<"yelp", "google">>),
                 Some(<<"osm", "yelp">>) }
Filters ==
    { [budget_min |-> None, budget_max |-> None, cuisines |-> None,
       dietary_restrictions |-> None],
      [budget_min |-> Some(1), budget_max |-> Some(3), cuisines |-> Some(<<"Italian">>),
       dietary_restrictions |-> Some(<<"vegetarian">>)] }

UserQueries ==
    { [lat |-> 0, lon |-> 0, radius_m |-> r,
       budget_min |-> f.budget_min, budget_max |-> f.budget_max,
       cuisines |-> f.cuisines, dietary_restrictions |-> f.dietary_restrictions,
       preferred_sources |-> s, limit_per_source |-> 8,
       expand_on_insufficient_results |-> e] :
      r \in Radii, f \in Filters, s \in SourceLists, e \in BOOLEAN }

\* ---- Orchestrator (agent_planner.py:293-357) ----
VARIABLES
    pc,             \* where run_agent_search is: "plan", "fetch", "loop", "done", "raised"
    user_query,     \* the caller's UserQuery object (radius_m is mutated in place)
    query_at_call,  \* the value of that object when run_agent_search was called
    max_expansions, \* the parameter
    planner_args,   \* the dict call_llm_planner returned, None before the call
    src_i,          \* index of the next source in the for loop over preferred_sources
    results_raw,
    places,
    expansions,
    stdout,         \* what print wrote: one <<radius_m, expansions>> per line 320
    calls,          \* the calls of fetch collaborators made so far: [src, args]
    result,         \* the returned dict, None before the return
    exc             \* the exception that left run_agent_search, None if none

\* The functions of the pipeline are also callable on their own; these
\* variables hold one such call: its arguments, its loop position, its result.
VARIABLES
    dd_places,      \* dedupe_and_merge: the argument list
    dd_i,           \* dedupe_and_merge: how many of its places the outer loop has taken
    dd_merged,      \* dedupe_and_merge: the local list merged
    sc_places,      \* compute_scores: the list passed
    sc_query,       \* compute_scores: the query passed
    sc_out,         \* compute_scores: the list after the call, None before
    nm_item,        \* normalize_provider_item: the raw record passed
    nm_out          \* normalize_provider_item: the Place returned or the exception, None before

fnvars == <<dd_places, dd_i, dd_merged, sc_places, sc_query, sc_out, nm_item, nm_out>>
runvars == <<pc, user_query, query_at_call, max_expansions, planner_args, src_i,
             results_raw, places, expansions, stdout, calls, result, exc>>

vars == <<pc, user_query, query_at_call, max_expansions, planner_args, src_i,
          results_raw, places, expansions, stdout, calls, result, exc,
          dd_places, dd_i, dd_merged, sc_places, sc_query, sc_out, nm_item, nm_out>>

\* no call of a single function is under way
FnIdle ==
    /\ dd_places = <<>>
    /\ dd_i = 0
    /\ dd_merged = <<>>
    /\ sc_places = <<>>
    /\ sc_query = None
    /\ sc_out = None
    /\ nm_item = None
    /\ nm_out = None

Init ==
    /\ pc = "plan"
    /\ user_query \in UserQueries
    /\ query_at_call = user_query
    /\ max_expansions \in 0..MaxMaxExpansions
    /\ planner_args = None
    /\ src_i = 1
    /\ results_raw = <<>>
    /\ places = <<>>
    /\ expansions = 0
    /\ stdout = <<>>
    /\ calls = <<>>
    /\ result = None
    /\ exc = None
    /\ FnIdle

\* a planner call that writes its defaults back into the query
PlanFillingDefaults ==
    /\ pc = "plan"
    /\ planner_args' = Some(call_llm_planner(user_query))
    /\ user_query' =
          [user_query EXCEPT
             !.preferred_sources = Some(call_llm_planner(user_query).preferred_sources),
             !.cuisines = Some(call_llm_planner(user_query).cuisines)]
    /\ results_raw' = <<>>
    /\ src_i' = 1
    /\ pc' = "fetch"
    /\ UNCHANGED <<query_at_call, max_expansions, places, expansions,
                   stdout, calls, result, exc>>
    /\ UNCHANGED fnvars

\* line 295 and 297
Plan ==
    /\ pc = "plan"
    /\ planner_args' = Some(call_llm_planner(user_query))
    /\ results_raw' = <<>>
    /\ src_i' = 1
    /\ pc' = "fetch"
    /\ UNCHANGED <<user_query, query_at_call, max_expansions, places, expansions,
                   stdout, calls, result, exc>>
    /\ UNCHANGED fnvars

Sources == Val(planner_args).preferred_sources
InFetchLoop == pc = "fetch" /\ src_i <= Len(Sources)
KnownSource(src) == src \in {"google", "yelp"}

\* lines 299-302 and 324-327: the call returns a list of raw records
FetchReturn ==
    /\ InFetchLoop
    /\ KnownSource(Sources[src_i])
    /\ \E recs \in FetchReturns(Sources[src_i], Val(planner_args)) :
           results_raw' = results_raw \o recs
    /\ calls' = Append(calls, [src |-> Sources[src_i], args |-> Val(planner_args)])
    /\ src_i' = src_i + 1
    /\ UNCHANGED <<pc, user_query, query_at_call, max_expansions, planner_args, places,
                   expansions, stdout, result, exc>>
    /\ UNCHANGED fnvars

\* the same call raises: nothing in run_agent_search catches it
FetchRaise ==
    /\ InFetchLoop
    /\ KnownSource(Sources[src_i])
    /\ calls' = Append(calls, [src |-> Sources[src_i], args |-> Val(planner_args)])
    /\ exc' = Some("FetchError")
    /\ pc' = "raised"
    /\ UNCHANGED <<user_query, query_at_call, max_expansions, planner_args, src_i,
                   results_raw, places, expansions, stdout, result>>
    /\ UNCHANGED fnvars

\* lines 303-305: a source that is neither google nor yelp is passed over
FetchSkip ==
    /\ InFetchLoop
    /\ ~KnownSource(Sources[src_i])
    /\ src_i' = src_i + 1
    /\ UNCHANGED <<pc, user_query, query_at_call, max_expansions, planner_args,
                   results_raw, places, expansions, stdout, calls, result, exc>>
    /\ UNCHANGED fnvars

\* lines 308-312 and 328-330: normalize, dedupe and merge, score
Pipeline(raws, uq) ==
    LET n == NormalizeAll(raws)
    IN IF IsExc(n) THEN n
       ELSE [places |-> compute_scores(dedupe_and_merge(n.places), uq)]

Process ==
    /\ pc = "fetch"
    /\ src_i > Len(Sources)
    /\ LET r == Pipeline(results_raw, user_query)
       IN IF IsExc(r)
          THEN /\ exc' = Some(r.exc)
               /\ pc' = "raised"
               /\ UNCHANGED places
          ELSE /\ places' = r.places
               /\ pc' = "loop"
               /\ UNCHANGED exc
    /\ UNCHANGED <<user_query, query_at_call, max_expansions, planner_args, src_i,
                   results_raw, expansions, stdout, calls, result>>
    /\ UNCHANGED fnvars

\* the guard with "<=" for "<" in the cap
MayExpandOffByOne ==
    /\ Len(places) < MIN_RESULTS_THRESHOLD
    /\ user_query.expand_on_insufficient_results
    /\ expansions <= max_expansions

\* the guard without the query's flag
MayExpandIgnoringFlag ==
    /\ Len(places) < MIN_RESULTS_THRESHOLD
    /\ expansions < max_expansions

\* line 316: the guard of the while loop
MayExpand ==
    /\ Len(places) < MIN_RESULTS_THRESHOLD
    /\ user_query.expand_on_insufficient_results
    /\ expansions < max_expansions

\* a widening that doubles
WidenDouble(radius_m) == radius_m * 2

\* line 319: int(radius_m * 1.5)
Widen(radius_m) == IntTrunc(radius_m * 3, 2)

\* a loop body that widens and refetches without counting the round
ExpandWithoutCounting ==
    /\ pc = "loop"
    /\ MayExpand
    /\ user_query' = [user_query EXCEPT !.radius_m = Widen(user_query.radius_m)]
    /\ stdout' = Append(stdout, <<Widen(user_query.radius_m), expansions + 1>>)
    /\ results_raw' = <<>>
    /\ src_i' = 1
    /\ pc' = "fetch"
    /\ UNCHANGED <<query_at_call, max_expansions, planner_args, places, calls, result, exc,
                   expansions>>
    /\ UNCHANGED fnvars

\* lines 317-322
Expand ==
    /\ pc = "loop"
    /\ MayExpand
    /\ expansions' = expansions + 1
    /\ user_query' = [user_query EXCEPT !.radius_m = Widen(user_query.radius_m)]
    /\ stdout' = Append(stdout, <<Widen(user_query.radius_m), expansions + 1>>)
    /\ results_raw' = <<>>
    /\ src_i' = 1
    /\ pc' = "fetch"
    /\ UNCHANGED <<query_at_call, max_expansions, planner_args, places, calls, result, exc>>
    /\ UNCHANGED fnvars

\* lines 335-350: one entry of the returned list
FinalEntry(p) ==
    [name |-> p.name, address |-> p.address, lat |-> p.lat, lon |-> p.lon,
     price_level |-> p.price_level, cuisines |-> p.cuisines,
     dietary_tags |-> p.dietary_tags, rating |-> p.rating, source |-> p.source,
     source_id |-> p.source_id, last_checked_ts |-> p.last_checked_ts,
     distance_m |-> p.distance_m, confidence |-> p.confidence,
     raw_preview |-> [raw |-> p.raw, merged_raw |-> p.merged_raw]]

\* a result whose metadata counts the rounds, not the expansions
BuildResultCountingRounds(ps, args, n) ==
    LET final == [i \in 1..Len(ps) |-> FinalEntry(ps[i])]
    IN [results |-> final,
        meta |-> [planner_args |-> args, expansions |-> n + 1, timestamp |-> Now,
                  num_results |-> Len(final)]]

\* lines 333-357
BuildResult(ps, args, n) ==
    LET final == [i \in 1..Len(ps) |-> FinalEntry(ps[i])]
    IN [results |-> final,
        meta |-> [planner_args |-> args, expansions |-> n, timestamp |-> Now,
                  num_results |-> Len(final)]]

\* a return that treats an empty list as an error
FinishRejectingEmpty ==
    /\ pc = "loop"
    /\ ~MayExpand
    /\ IF places = <<>>
       THEN /\ exc' = Some("ValueError")
            /\ pc' = "raised"
            /\ UNCHANGED result
       ELSE /\ result' = Some(BuildResult(places, Val(planner_args), expansions))
            /\ pc' = "done"
            /\ UNCHANGED exc
    /\ UNCHANGED <<user_query, query_at_call, max_expansions, planner_args, src_i,
                   results_raw, places, expansions, stdout, calls>>
    /\ UNCHANGED fnvars

Finish ==
    /\ pc = "loop"
    /\ ~MayExpand
    /\ result' = Some(BuildResult(places, Val(planner_args), expansions))
    /\ pc' = "done"
    /\ UNCHANGED <<user_query, query_at_call, max_expansions, planner_args, src_i,
                   results_raw, places, expansions, stdout, calls, exc>>
    /\ UNCHANGED fnvars

Next == Plan \/ FetchReturn \/ FetchRaise \/ FetchSkip \/ Process \/ Expand \/ Finish

Spec == Init /\ [][Next]_vars

\* ======================================================================
\* Properties of run_agent_search
\* ======================================================================
Done == pc = "done"
Meta == Val(result).meta
Enabled == user_query.expand_on_insufficient_results

\* C1: the number of expansion rounds never exceeds max_expansions: in every
\* state expansions <= max_expansions, no more than max_expansions refetch
\* rounds are announced on stdout, and the fetch collaborators are called at
\* most (1 + max_expansions) times per preferred source.
C1_ExpansionCap ==
    /\ expansions <= max_expansions
    /\ Len(stdout) <= max_expansions
    /\ planner_args # None => Len(calls) <= (1 + max_expansions) * Len(Sources)

C1_Witness == Done /\ max_expansions = MAX_EXPANSIONS /\ expansions = MAX_EXPANSIONS

\* C2: a call with radius 800, expansion enabled and max_expansions = 2 whose
\* last round (hence, by the loop guard, every round) left fewer than 3 places
\* returns after exactly 2 expansions, the radius having gone 800 -> 1200 ->
\* 1800, and its metadata reports expansions = 2.
C2_TwoExpansions ==
    (/\ Done
     /\ query_at_call.radius_m = 800
     /\ Enabled
     /\ max_expansions = MAX_EXPANSIONS
     /\ Len(places) < MIN_RESULTS_THRESHOLD)
    => /\ expansions = 2
       /\ stdout = << <<1200, 1>>, <<1800, 2>> >>
       /\ user_query.radius_m = 1800
       /\ Meta.expansions = 2

C2_Witness ==
    /\ Done
    /\ query_at_call.radius_m = 800
    /\ Enabled
    /\ max_expansions = MAX_EXPANSIONS
    /\ Len(places) = 1
    /\ user_query.radius_m = 1800
    /\ Meta.expansions = 2

\* C3: at DONE the last round's count is >= 3, or the flag is false, or the
\* expansion count equals max_expansions; a refetch round is only ever entered
\* from a list of fewer than 3 places; with the flag false there is no
\* expansion and the radius is the one the caller passed.
C3_DoneReason ==
    /\ Done => \/ Len(places) >= MIN_RESULTS_THRESHOLD
               \/ ~Enabled
               \/ expansions = max_expansions
    /\ (pc = "fetch" /\ expansions >= 1) => Len(places) < MIN_RESULTS_THRESHOLD
    /\ ~Enabled => /\ expansions = 0
                   /\ stdout = <<>>
                   /\ user_query.radius_m = query_at_call.radius_m

C3_Witness ==
    /\ Done
    /\ ~Enabled
    /\ max_expansions > 0
    /\ Len(places) < MIN_RESULTS_THRESHOLD
    /\ expansions = 0

\* C4: every call of a fetch collaborator made in a refetch round carries, in
\* its arguments, the query's current (widened) radius.
C4_RefetchArgsWidened ==
    [][(expansions >= 1 /\ calls' # calls)
        => calls'[Len(calls')].args.radius_m = user_query.radius_m]_vars

\* C5: the returned metadata agrees with the run: meta.expansions is the
\* number of expansions announced and performed, meta.num_results the length
\* of the returned list, and the returned list is the scored list of the last
\* round's records, entry for entry.
C5_MetaConsistent ==
    Done =>
      /\ Meta.expansions = Len(stdout)
      /\ Meta.expansions = expansions
      /\ Meta.num_results = Len(Val(result).results)
      /\ Val(result).results = [i \in 1..Len(places) |-> FinalEntry(places[i])]
      /\ places = Pipeline(results_raw, user_query).places

C5_Witness ==
    /\ Done
    /\ Meta.expansions = 1
    /\ Meta.num_results = 3
    /\ Len(stdout) = 1

\* C6: a fetch collaborator that raises does not abort the round: the
\* exception does not leave run_agent_search.
C6_FetchErrorIsolated == ~(pc = "raised" /\ exc = Some("FetchError"))

\* C7: from a last round of zero places with expansion disabled or exhausted,
\* run_agent_search returns: the step taken ends in DONE with no exception, an
\* empty list, num_results = 0 and expansions equal to the rounds performed.
C7_EmptyIsNotAnError ==
    [][(pc = "loop" /\ places = <<>> /\ ~MayExpand)
        => /\ pc' = "done"
           /\ exc' = None
           /\ Val(result').results = <<>>
           /\ Val(result').meta.num_results = 0
           /\ Val(result').meta.expansions = Len(stdout)]_vars

C7_Witness ==
    /\ Done
    /\ places = <<>>
    /\ Val(result).results = <<>>
    /\ Meta.num_results = 0
    /\ Meta.expansions = MAX_EXPANSIONS

\* C8: a raw record lacking a latitude or a longitude makes
\* normalize_provider_item raise: a round holding such a record yields no
\* list of places, and every Place carries the coordinates of its own record.
C8_MissingCoordsRaise ==
    /\ \A i \in 1..Len(results_raw) :
          LacksCoords(results_raw[i]) => IsExc(normalize_provider_item(results_raw[i]))
    /\ pc \in {"loop", "done"} => \A i \in 1..Len(results_raw) : ~LacksCoords(results_raw[i])
    /\ \A i \in 1..Len(places) :
          /\ ~LacksCoords(places[i].raw)
          /\ places[i].lat = places[i].raw["lat"]
          /\ places[i].lon = places[i].raw["lon"]

C8_Witness ==
    /\ pc = "raised"
    /\ exc = Some("TypeError")
    /\ \E i \in 1..Len(results_raw) : LacksCoords(results_raw[i])

\* C9: the price_level of every Place, after normalization, merge and
\* scoring, is None or an integer in [0,4].
C9_PriceLevelInRange ==
    \A i \in 1..Len(places) :
        IsNone(places[i].price_level) \/ Val(places[i].price_level) \in 0..4

\* C10: the cuisines and dietary_tags of every Place hold no duplicate and no
\* empty string, and every cuisine is lower-cased.
NoDuplicates(xs) == \A i, j \in 1..Len(xs) : xs[i] = xs[j] => i = j
C10_TagsClean ==
    \A i \in 1..Len(places) :
        /\ NoDuplicates(places[i].cuisines)
        /\ NoDuplicates(places[i].dietary_tags)
        /\ "" \notin Range(places[i].cuisines)
        /\ "" \notin Range(places[i].dietary_tags)
        /\ \A c \in Range(places[i].cuisines) : Lower(c) = c

\* ======================================================================
\* dedupe_and_merge called on its own (agent_planner.py:222-250)
\* ======================================================================
MaxPlaces == 3

\* a Place as a caller may build it (the dataclass, lines 42-57)
MkPlace(sid, name, lat, lon, rating, cuisines, dietary_tags, price_level) ==
    [name |-> name, address |-> "", lat |-> lat, lon |-> lon,
     price_level |-> price_level, cuisines |-> cuisines, dietary_tags |-> dietary_tags,
     rating |-> rating, source |-> "test", source_id |-> sid, last_checked_ts |-> Now,
     raw |-> [id |-> sid], merged_raw |-> <<>>, distance_m |-> None, confidence |-> None]

\* The places dedupe_and_merge is called with: the two "Luigi's Italian" records
\* of the stubs as normalized, and places around one venue at 39.99 m, at
\* exactly 40 m (0/4000 and 2400/3200) and far away, with names at similarity
\* 100, 96.55, 88.24, 84.85 and exactly 85, rated, unrated and rated 0.
DedupePool ==
    { NormalizePlace(call_google_places_stub([lat |-> 0, lon |-> 0])[1]),
      NormalizePlace(call_yelp_stub([lat |-> 0, lon |-> 0])[1]),
      MkPlace("a", Some("Luigi's Italian"), 0, 0, Some(45), <<"italian">>, <<>>, Some(2)),
      MkPlace("b", Some("Luigis Italian"), 0, 3999, Some(40), <<"pizza", "italian">>,
              <<"vegetarian">>, None),
      MkPlace("c", Some("Luigi's Italian Bar"), 0, 0, None, <<"bar">>, <<"vegan">>, Some(3)),
      MkPlace("d", Some("Luigi's Italian"), 0, 4000, Some(48), <<>>, <<>>, None),
      MkPlace("e", Some("Casa Bonita Grill"), 0, 0, None, <<"mexican">>, <<>>, Some(1)),
      MkPlace("f", Some("Casa Bonita Grill Diner"), 2400, 3200, Some(30), <<"grill">>,
              <<>>, None),
      MkPlace("g", Some("Casa Bonita Grill Diner"), 2400, 3199, Some(0), <<"diner">>,
              <<"vegan">>, None),
      MkPlace("h", None, 0, 0, Some(50), <<>>, <<>>, None) }

\* the lists of at most n distinct places of S
RECURSIVE ListsUpTo(_, _)
ListsUpTo(S, n) ==
    IF n = 0 THEN {<<>>}
    ELSE LET shorter == ListsUpTo(S, n - 1)
         IN shorter \cup { Append(l, x) : l \in shorter, x \in S }
DistinctLists(S, n) ==
    { l \in ListsUpTo(S, n) : \A i, j \in 1..Len(l) : l[i] = l[j] => i = j }

RunIdle ==
    /\ pc = "idle"
    /\ user_query = None
    /\ query_at_call = None
    /\ max_expansions = MAX_EXPANSIONS
    /\ planner_args = None
    /\ src_i = 1
    /\ results_raw = <<>>
    /\ places = <<>>
    /\ expansions = 0
    /\ stdout = <<>>
    /\ calls = <<>>
    /\ result = None
    /\ exc = None

DedupeInit ==
    /\ RunIdle
    /\ dd_places \in DistinctLists(DedupePool, MaxPlaces)
    /\ dd_i = 0
    /\ dd_merged = <<>>
    /\ sc_places = <<>>
    /\ sc_query = None
    /\ sc_out = None
    /\ nm_item = None
    /\ nm_out = None

\* one iteration of "for p in places", lines 228-249
DedupeIter ==
    /\ dd_i < Len(dd_places)
    /\ dd_merged' = DedupeStep(dd_merged, dd_places[dd_i + 1], DEDUPE_THRESHOLD)
    /\ dd_i' = dd_i + 1
    /\ UNCHANGED <<dd_places, sc_places, sc_query, sc_out, nm_item, nm_out>>
    /\ UNCHANGED runvars

DedupeNext == DedupeIter

SpecDedupe == DedupeInit /\ [][DedupeNext]_vars

\* line 250: the loop is over and merged is returned
DedupeReturned == dd_i = Len(dd_places)

\* ---- Properties of dedupe_and_merge ----
\* the place of the input list that the object x is (source ids are the
\* identities of the objects of DedupePool)
InputIndex(x) == CHOOSE j \in 1..Len(dd_places) : dd_places[j].source_id = x.source_id
\* the place the current iteration takes
Arriving == dd_places[dd_i + 1]
Iterates == dd_i' = dd_i + 1

\* C11: the list dedupe_and_merge builds is a subsequence of its input: it is
\* no longer than the input taken so far, each of its elements is one of the
\* input objects (same identity, name, address, coordinates and raw record),
\* and its elements are in the order in which they appear in the input.
C11_Subsequence ==
    /\ Len(dd_merged) <= dd_i
    /\ \A k \in 1..Len(dd_merged) :
          \E j \in 1..dd_i :
              /\ dd_places[j].source_id = dd_merged[k].source_id
              /\ dd_places[j].name = dd_merged[k].name
              /\ dd_places[j].address = dd_merged[k].address
              /\ dd_places[j].lat = dd_merged[k].lat
              /\ dd_places[j].lon = dd_merged[k].lon
              /\ dd_places[j].raw = dd_merged[k].raw
    /\ \A k1, k2 \in 1..Len(dd_merged) :
          k1 < k2 => InputIndex(dd_merged[k1]) < InputIndex(dd_merged[k2])

C11_Witness ==
    /\ DedupeReturned
    /\ Len(dd_places) = 3
    /\ Len(dd_merged) = 2
    /\ dd_merged[1].source_id = dd_places[1].source_id
    /\ dd_merged[2].source_id = dd_places[3].source_id

\* the similarity and the squared distance (cm^2) of two places
Sim(p, m) == token_sort_ratio(p.name, m.name)
DistSq(p, m) == (p.lat - m.lat) * (p.lat - m.lat) + (p.lon - m.lon) * (p.lon - m.lon)
Sim85 == DEDUPE_THRESHOLD * 100
Dist40Sq == (PROXIMITY_M * 100) * (PROXIMITY_M * 100)
Merged == Len(dd_merged') = Len(dd_merged)
Appended == dd_merged' = Append(dd_merged, Arriving)

RatingKept(before, after) ==
    ~IsNone(before.rating) => (~IsNone(after.rating) /\ Val(after.rating) >= Val(before.rating))
C13_MergeMonotone ==
    [][Iterates =>
        /\ \A i \in 1..Len(dd_merged) :
              /\ RatingKept(dd_merged[i], dd_merged'[i])
              /\ Range(dd_merged[i].cuisines) \subseteq Range(dd_merged'[i].cuisines)
              /\ Range(dd_merged[i].dietary_tags) \subseteq Range(dd_merged'[i].dietary_tags)
        /\ Merged =>
              \E i \in 1..Len(dd_merged) :
                  /\ dd_merged'[i] # dd_merged[i]
                  /\ Range(Arriving.cuisines) \subseteq Range(dd_merged'[i].cuisines)
                  /\ Range(Arriving.dietary_tags) \subseteq Range(dd_merged'[i].dietary_tags)]_vars

\* "b" (rated 4.0, 2 cuisines, 1 dietary tag) has taken "a" (rated 4.5)
C13_Witness ==
    /\ DedupeReturned
    /\ Len(dd_merged) = 1
    /\ dd_merged[1].source_id = "b"
    /\ dd_merged[1].rating = Some(45)
    /\ Range(dd_merged[1].cuisines) = {"pizza", "italian"}
    /\ Range(dd_merged[1].dietary_tags) = {"vegetarian"}
    /\ Len(dd_merged[1].merged_raw) = 2

\* C14: an anchor into which k >= 1 places were merged carries a provenance
\* list of k + 1 records: its own raw record first, then the raw records of
\* the merged places in arrival order; an anchor with no merge carries none.
\* So the lists (or, without one, the anchor's own record) account for every
\* place taken so far exactly once.  The two "Luigi's Italian" records of the
\* stubs end as one Place holding both raw records and the higher rating 4.5.
Provenance(m) == IF m.merged_raw = <<>> THEN <<m.raw>> ELSE m.merged_raw
RawIndex(r) == CHOOSE j \in 1..Len(dd_places) : dd_places[j].raw = r
RECURSIVE SumLen(_)
SumLen(ms) == IF ms = <<>> THEN 0 ELSE Len(Provenance(Head(ms))) + SumLen(Tail(ms))
StubLuigis ==
    { NormalizePlace(call_google_places_stub([lat |-> 0, lon |-> 0])[1]),
      NormalizePlace(call_yelp_stub([lat |-> 0, lon |-> 0])[1]) }
C14_Provenance ==
    /\ \A k \in 1..Len(dd_merged) :
          LET m == dd_merged[k]
          IN /\ Len(m.merged_raw) # 1
             /\ Provenance(m)[1] = m.raw
             /\ \A e \in 1..Len(Provenance(m)) :
                   \E j \in 1..dd_i : dd_places[j].raw = Provenance(m)[e]
             /\ \A e1, e2 \in 1..Len(Provenance(m)) :
                   e1 < e2 => RawIndex(Provenance(m)[e1]) < RawIndex(Provenance(m)[e2])
    /\ SumLen(dd_merged) = dd_i
    /\ (DedupeReturned /\ Len(dd_places) = 2 /\ Range(dd_places) = StubLuigis)
       => /\ Len(dd_merged) = 1
          /\ dd_merged[1].merged_raw = <<dd_places[1].raw, dd_places[2].raw>>
          /\ dd_merged[1].rating = Some(45)
          /\ dd_merged[1].name = dd_places[1].name

\* "a" has taken "b" and then "c"
C14_Witness ==
    /\ DedupeReturned
    /\ Len(dd_places) = 3
    /\ Len(dd_merged) = 1
    /\ dd_merged[1].source_id = "a"
    /\ dd_merged[1].merged_raw = << [id |-> "a"], [id |-> "b"], [id |-> "c"] >>

\* C20: the arriving place is held against the anchors of merged only.  With
\* the anchors that satisfy both conditions (similarity >= threshold and planar
\* distance < 40 m) as candidates: if there is none the place is appended as a
\* new anchor and no anchor changes; otherwise nothing is appended, the first
\* candidate in list order takes the place's raw record into its provenance,
\* and every other anchor, candidates included, is left as it was.
Candidates ==
    { i \in 1..Len(dd_merged) :
        Sim(Arriving, dd_merged[i]) >= Sim85 /\ DistSq(Arriving, dd_merged[i]) < Dist40Sq }
FirstCandidate == CHOOSE i \in Candidates : \A j \in Candidates : i <= j
C20_FirstAnchorOnly ==
    [][Iterates =>
        /\ (Candidates = {}) <=> (Len(dd_merged') = Len(dd_merged) + 1)
        /\ Candidates = {} => Appended
        /\ Candidates # {} =>
              /\ Len(dd_merged') = Len(dd_merged)
              /\ Provenance(dd_merged'[FirstCandidate])
                    = Append(Provenance(dd_merged[FirstCandidate]), Arriving.raw)
              /\ \A i \in 1..Len(dd_merged) :
                    i # FirstCandidate => dd_merged'[i] = dd_merged[i]]_vars

\* "b" and "c" are anchors (similarity 84.85); "a" is within both thresholds of
\* each and has gone into "b" only.  In another order "b" would be a duplicate
\* of "a", which the anchors-only comparison never looks at.
C20_Witness ==
    /\ DedupeReturned
    /\ Len(dd_places) = 3
    /\ dd_places[3].source_id = "a"
    /\ Len(dd_merged) = 2
    /\ dd_merged[1].merged_raw = << [id |-> "b"], [id |-> "a"] >>
    /\ dd_merged[2] = dd_places[2]
    /\ dd_merged[2].source_id = "c"
    /\ Sim(dd_places[3], dd_merged[2]) >= Sim85
    /\ DistSq(dd_places[3], dd_merged[2]) < Dist40Sq

\* ======================================================================
\* compute_scores called on its own (agent_planner.py:253-290)
\* ======================================================================
\* The places compute_scores is called with, around the query centre (0, 0):
\* at the centre, 39.99 m away and 300 m or more away; rated 5.0, 4.5, 3.0, 0 and
\* unrated; with and without the tags and the price the filters ask for.
ScorePool ==
    { MkPlace("s1", Some("Luigi's Italian"), 0, 0, Some(50), <<"italian">>,
              <<"vegetarian">>, Some(2)),
      MkPlace("s2", Some("Luigis Italian"), 0, 0, Some(50), <<"pizza", "italian">>,
              <<"vegetarian", "vegan">>, Some(3)),
      MkPlace("s3", Some("Sushi Bar"), 30000, 0, None, <<"sushi">>, <<>>, None),
      MkPlace("s4", Some("Sushi Bar"), 0, 30000, Some(0), <<>>, <<"vegan">>, Some(4)),
      MkPlace("s5", Some("Sushi Bar"), 30000, 30000, Some(30), <<"sushi">>, <<>>, None),
      MkPlace("s6", Some("Luigi's Italian"), 0, 0, Some(45), <<"italian">>,
              <<"vegetarian">>, Some(1)),
      MkPlace("s7", Some("Luigi's Italian"), 0, 0, Some(50), <<"italian">>,
              <<"vegetarian">>, None),
      MkPlace("s8", Some("Luigi's Italian"), 0, 3999, Some(50), <<"italian">>,
              <<"vegetarian">>, Some(2)),
      MkPlace("s9", Some("Sushi Bar"), 0, 0, None, <<"sushi">>, <<>>, None) }

ScoreRadii == {0, 20, 100}
ScoreQueries ==
    { [lat |-> 0, lon |-> 0, radius_m |-> r,
       budget_min |-> f.budget_min, budget_max |-> f.budget_max,
       cuisines |-> f.cuisines, dietary_restrictions |-> f.dietary_restrictions,
       preferred_sources |-> None, limit_per_source |-> 8,
       expand_on_insufficient_results |-> TRUE] :
      r \in ScoreRadii, f \in Filters }

ScoreInit ==
    /\ RunIdle
    /\ dd_places = <<>>
    /\ dd_i = 0
    /\ dd_merged = <<>>
    /\ sc_places \in DistinctLists(ScorePool, MaxPlaces)
    /\ sc_query \in { Some(q) : q \in ScoreQueries }
    /\ sc_out = None
    /\ nm_item = None
    /\ nm_out = None

\* the call: lines 258-290
Score ==
    /\ sc_query # None
    /\ sc_out = None
    /\ sc_out' = Some(compute_scores(sc_places, Val(sc_query)))
    /\ UNCHANGED <<dd_places, dd_i, dd_merged, sc_places, sc_query, nm_item, nm_out>>
    /\ UNCHANGED runvars

ScoreNext == Score

SpecScore == ScoreInit /\ [][ScoreNext]_vars

\* ---- Properties of compute_scores ----
Scored_ == sc_out # None
Ranked == Val(sc_out)
Conf0(x) == IF IsNone(x.confidence) THEN 0 ELSE Val(x.confidence)
Rate0(x) == IF IsNone(x.rating) THEN 0 ELSE Val(x.rating)
SameKey(x, y) == Conf0(x) = Conf0(y) /\ Rate0(x) = Rate0(y)
PassedIndex(x) == CHOOSE i \in 1..Len(sc_places) : sc_places[i].source_id = x.source_id

\* C15: after compute_scores the list holds the places it held before, each
\* once and changed in distance_m and confidence only; it is ordered by
\* descending confidence, then descending rating (missing values as 0); and
\* two places equal in both are in the order they had before.
C15_StableRanking ==
    Scored_ =>
        /\ Len(Ranked) = Len(sc_places)
        /\ \A i \in 1..Len(sc_places) :
              \E j \in 1..Len(Ranked) :
                  [Ranked[j] EXCEPT !.distance_m = None, !.confidence = None] = sc_places[i]
        /\ \A j, k \in 1..Len(Ranked) :
              j < k =>
                  /\ Conf0(Ranked[j]) >= Conf0(Ranked[k])
                  /\ Conf0(Ranked[j]) = Conf0(Ranked[k]) => Rate0(Ranked[j]) >= Rate0(Ranked[k])
                  /\ SameKey(Ranked[j], Ranked[k])
                        => PassedIndex(Ranked[j]) < PassedIndex(Ranked[k])

\* passed as s3, s5, s4 (all at confidence 0.454): s5, rated 3.0, comes first;
\* s3 (unrated) and s4 (rated 0) are equal in both and keep their order
C15_Witness ==
    /\ Scored_
    /\ Len(sc_places) = 3
    /\ sc_places[1].source_id = "s3"
    /\ sc_places[2].source_id = "s5"
    /\ sc_places[3].source_id = "s4"
    /\ Ranked[1].source_id = "s5"
    /\ Ranked[2].source_id = "s3"
    /\ Ranked[3].source_id = "s4"
    /\ SameKey(Ranked[2], Ranked[3])
    /\ Conf0(Ranked[1]) = Conf0(Ranked[2])

\* what the claims on the confidence say of a place and a query
Asks(list) == ~IsNone(list) /\ Val(list) # <<>>
CuisineMatch(p, q) ==
    Asks(q.cuisines) /\ \E i \in 1..Len(Val(q.cuisines)) :
                            Lower(Val(q.cuisines)[i]) \in Range(p.cuisines)
DietaryMatch(p, q) ==
    Asks(q.dietary_restrictions)
    /\ \E i \in 1..Len(Val(q.dietary_restrictions)) :
           Lower(Val(q.dietary_restrictions)[i]) \in Range(p.dietary_tags)
CuisineMiss(p, q) == Asks(q.cuisines) /\ ~CuisineMatch(p, q)
DietaryMiss(p, q) == Asks(q.dietary_restrictions) /\ ~DietaryMatch(p, q)
InBand(p, q) ==
    /\ ~IsNone(p.price_level)
    /\ ~IsNone(q.budget_min) => Val(p.price_level) >= Val(q.budget_min)
    /\ ~IsNone(q.budget_max) => Val(p.price_level) <= Val(q.budget_max)
OutOfBand(p, q) ==
    \/ ~IsNone(q.budget_min) /\ (IsNone(p.price_level) \/ Val(p.price_level) < Val(q.budget_min))
    \/ ~IsNone(q.budget_max) /\ (IsNone(p.price_level) \/ Val(p.price_level) > Val(q.budget_max))
\* the squared planar distance to the query centre, in cm^2
CentreDistSq(p, q) == (p.lat - q.lat) * (p.lat - q.lat) + (p.lon - q.lon) * (p.lon - q.lon)
AtLeastMetres(p, q, d) == CentreDistSq(p, q) >= (100 * d) * (100 * d)

\* C16: a place with a cuisine and a dietary tag the query asks for, rated
\* 5.0, at the query centre and priced inside the band gets confidence 1.0.
C16_PerfectIsOne ==
    Scored_ =>
        \A j \in 1..Len(Ranked) :
            ( /\ CuisineMatch(Ranked[j], Val(sc_query))
              /\ DietaryMatch(Ranked[j], Val(sc_query))
              /\ Ranked[j].rating = Some(50)
              /\ CentreDistSq(Ranked[j], Val(sc_query)) = 0
              /\ InBand(Ranked[j], Val(sc_query)) )
            => Ranked[j].confidence = Some(1000)

C16_Witness ==
    /\ Scored_
    /\ \E j \in 1..Len(Ranked) :
          /\ Ranked[j].source_id = "s1"
          /\ CuisineMatch(Ranked[j], Val(sc_query))
          /\ DietaryMatch(Ranked[j], Val(sc_query))
          /\ InBand(Ranked[j], Val(sc_query))
          /\ Val(sc_query).budget_min = Some(1)
          /\ Ranked[j].distance_m = Some(0)
          /\ Ranked[j].confidence = Some(1000)

\* the case of C17: nothing the query asks for matches, no rating, out of band
NothingMatches(p, q) ==
    /\ CuisineMiss(p, q)
    /\ DietaryMiss(p, q)
    /\ IsNone(p.rating)
    /\ OutOfBand(p, q)

\* C17 as stated: such a place at or beyond twice the radius gets 0.383.
C17_WorstIs383 ==
    Scored_ =>
        \A j \in 1..Len(Ranked) :
            ( /\ NothingMatches(Ranked[j], Val(sc_query))
              /\ AtLeastMetres(Ranked[j], Val(sc_query), 2 * Val(sc_query).radius_m) )
            => Ranked[j].confidence = Some(383)

\* C17 amended: such a place at a distance of at least max(1, 2 * radius)
\* metres, where the distance term is 0, gets confidence 0.454, which is
\* 0.4*0.6*0.85 + 0.3*0.6 + 0 + 0.1*0.7.
C17_WorstIs454 ==
    Scored_ =>
        \A j \in 1..Len(Ranked) :
            ( /\ NothingMatches(Ranked[j], Val(sc_query))
              /\ AtLeastMetres(Ranked[j], Val(sc_query), Max(1, 2 * Val(sc_query).radius_m)) )
            => Ranked[j].confidence = Some(454)

C17_Witness ==
    /\ Scored_
    /\ Val(sc_query).radius_m = 100
    /\ \E j \in 1..Len(Ranked) :
          /\ Ranked[j].source_id = "s3"
          /\ NothingMatches(Ranked[j], Val(sc_query))
          /\ AtLeastMetres(Ranked[j], Val(sc_query), 200)
          /\ Ranked[j].confidence = Some(454)

\* ======================================================================
\* normalize_provider_item called on its own (agent_planner.py:180-220)
\* ======================================================================
\* The keys the normalizer reads besides the coordinates, and a value for each
OptionalKeys ==
    {"provider", "name", "address", "price_level", "price", "types", "categories",
     "rating", "id", "place_id", "ts"}
KeyValue(k, price) ==
    CASE k = "provider" -> "yelp"
      [] k = "name" -> "Luigi's Italian"
      [] k = "address" -> "123 Pasta St"
      [] k = "lat" -> 11322
      [] k = "lon" -> 13098
      [] k = "price_level" -> 2
      [] k = "price" -> price
      [] k = "types" -> <<"Italian", "restaurant">>
      [] k = "categories" -> <<"PIZZA">>
      [] k = "rating" -> 45
      [] k = "id" -> "y_9"
      [] k = "place_id" -> "ChIJ7"
      [] k = "ts" -> 5
\* price values a provider may send: well-formed, empty, too long, not made of
\* "$", and not a string at all
PriceValues == {"$$", "", "$$$$$", "cheap", NonStrEntry}
CoordKeySets == { {"lat", "lon"}, {"lon"}, {"lat"} }
RawItems ==
    { [k \in ks \cup cs |-> KeyValue(k, price)] :
        ks \in SUBSET OptionalKeys, cs \in CoordKeySets, price \in PriceValues }

NormInit ==
    /\ RunIdle
    /\ dd_places = <<>>
    /\ dd_i = 0
    /\ dd_merged = <<>>
    /\ sc_places = <<>>
    /\ sc_query = None
    /\ sc_out = None
    /\ nm_item \in { Some(item) : item \in RawItems }
    /\ nm_out = None

\* the call: lines 182-220
Normalize ==
    /\ nm_item # None
    /\ nm_out = None
    /\ nm_out' = Some(normalize_provider_item(Val(nm_item)))
    /\ UNCHANGED <<dd_places, dd_i, dd_merged, sc_places, sc_query, sc_out, nm_item>>
    /\ UNCHANGED runvars

NormNext == Normalize

SpecNorm == NormInit /\ [][NormNext]_vars

\* ---- Properties of normalize_provider_item ----
Normalized == nm_out # None
Item == Val(nm_item)
Has(k) == k \in DOMAIN Item
HasCoords == Has("lat") /\ Has("lon")
PriceIsString == Has("price") => Item["price"] # NonStrEntry
\* the number of characters of a price string of the model
Chars(str) ==
    CASE str = "" -> 0
      [] str = "$$" -> 2
      [] str = "$$$$$" -> 5
      [] str = "cheap" -> 5

\* C18: a record with both coordinates, any subset of the other keys and, if it
\* has a price, any string as its value, is normalized to a Place and not to an
\* exception: the Place carries the record and its coordinates, the default of
\* every absent key, and as price level the record's price_level, else the
\* length of the price string whatever its content, else none.
C18_ToleratesAbsentKeys ==
    (Normalized /\ HasCoords /\ PriceIsString) =>
        LET out == Val(nm_out)
        IN /\ "exc" \notin DOMAIN out
           /\ out.raw = Item
           /\ out.lat = Item["lat"] /\ out.lon = Item["lon"]
           /\ out.name = (IF Has("name") THEN Some(Item["name"]) ELSE None)
           /\ ~Has("address") => out.address = ""
           /\ ~Has("provider") => out.source = "unknown"
           /\ ~Has("rating") => out.rating = None
           /\ (~Has("id") /\ ~Has("place_id")) => out.source_id = ""
           /\ (~Has("types") /\ ~Has("categories")) => out.cuisines = <<>>
           /\ ~Has("ts") => out.last_checked_ts = Now
           /\ out.price_level =
                 (IF Has("price_level") THEN Some(Item["price_level"])
                  ELSE IF Has("price") THEN Some(Chars(Item["price"]))
                  ELSE None)

\* a record of lat, lon and price "cheap" alone has become a Place of tier 5
C18_Witness ==
    /\ Normalized
    /\ DOMAIN Item = {"lat", "lon", "price"}
    /\ Item["price"] = "cheap"
    /\ "exc" \notin DOMAIN Val(nm_out)
    /\ Val(nm_out).price_level = Some(5)
    /\ Val(nm_out).name = None

\* ======================================================================
\* Termination of run_agent_search
\* ======================================================================
\* run_agent_search is sequential code: while it has not ended, control moves
\* on.  Each step of Next moves pc or src_i: the planner call returns (line
\* 295), a fetch call comes back with a list or an exception or an unknown
\* source is skipped (lines 299-302), the pipeline returns or raises (lines
\* 308-312), the loop test sends control into the body or to the return (line
\* 316).  For the fetch steps this is the proviso that every call of a fetch
\* collaborator comes back.
ControlMoves ==
    \/ pc = "plan" /\ pc' = "fetch" /\ src_i' = 1
    \/ InFetchLoop /\ pc' = "fetch" /\ src_i' = src_i + 1
    \/ InFetchLoop /\ pc' = "raised" /\ src_i' = src_i
    \/ pc = "fetch" /\ ~InFetchLoop /\ pc' \in {"loop", "raised"} /\ src_i' = src_i
    \/ pc = "loop" /\ pc' = "fetch" /\ src_i' = 1
    \/ pc = "loop" /\ pc' = "done" /\ src_i' = src_i

FairSpec == Spec /\ WF_<<pc, src_i>>(ControlMoves)

Terminated == pc \in {"done", "raised"}
\* the body of the while loop is entered (line 317)
EntersLoopBody == pc = "loop" /\ pc' = "fetch"

\* C19: every call of run_agent_search ends, whatever the query and
\* max_expansions, and also when widening leaves the radius as it was: each
\* pass through the loop body uses up one of the max_expansions rounds, and the
\* call ends in DONE unless an exception of a fetch collaborator or of the
\* normalizer leaves it.
C19_Terminates ==
    /\ <>Terminated
    /\ [](pc = "raised" => exc \in {Some("FetchError"), Some("TypeError")})
    /\ [][EntersLoopBody =>
            /\ expansions' = expansions + 1
            /\ expansions' <= max_expansions]_vars

\* a call with radius 0 or 1, which int(radius * 1.5) leaves unchanged, has
\* gone through the loop body max_expansions = 2 times and returned
C19_Witness ==
    /\ Done
    /\ query_at_call.radius_m \in {0, 1}
    /\ user_query.radius_m = query_at_call.radius_m
    /\ max_expansions = 2
    /\ expansions = 2
    /\ Len(stdout) = 2

\* ======================================================================
\* Further properties of dedupe_and_merge
\* ======================================================================
\* a place has a rating, whatever its value
Rated(p) == ~IsNone(p.rating)
\* the anchor the arriving place is merged into, before and after the merge
Anchor == dd_merged[FirstCandidate]
AnchorAfter == dd_merged'[FirstCandidate]

\* C21: in a merge the anchor's rating becomes the incoming rating when the
\* anchor is rated and the incoming rating is strictly higher, and when the
\* anchor is unrated and the incoming place is rated, be it rated 0; in every
\* other merge the anchor's rating stays as it was.
C21_RatingReplacedIffHigher ==
    [][(Iterates /\ Candidates # {}) =>
          IF \/ Rated(Anchor) /\ Rated(Arriving) /\ Val(Arriving.rating) > Val(Anchor.rating)
             \/ ~Rated(Anchor) /\ Rated(Arriving)
          THEN AnchorAfter.rating = Arriving.rating
          ELSE AnchorAfter.rating = Anchor.rating]_vars

\* the fields a merge never assigns
Identity(x) ==
    [name |-> x.name, address |-> x.address, lat |-> x.lat, lon |-> x.lon,
     price_level |-> x.price_level, source |-> x.source, source_id |-> x.source_id,
     last_checked_ts |-> x.last_checked_ts]
\* x and y differ at most in cuisines, dietary_tags, rating and provenance
SameButMergeFields(x, y) ==
    [y EXCEPT !.cuisines = x.cuisines, !.dietary_tags = x.dietary_tags,
              !.rating = x.rating, !.merged_raw = x.merged_raw] = x

\* C22: every anchor has the name, address, lat, lon, price_level, source,
\* source_id and last_checked_ts of the input place it was appended as,
\* whatever has been merged into it since; an iteration changes nothing of an
\* anchor but cuisines, dietary_tags, rating and the provenance list, and
\* leaves the place it merges as it was.
C22_IdentityKept ==
    /\ [](\A k \in 1..Len(dd_merged) :
             Identity(dd_merged[k]) = Identity(dd_places[InputIndex(dd_merged[k])]))
    /\ [][Iterates =>
            /\ \A i \in 1..Len(dd_merged) : SameButMergeFields(dd_merged[i], dd_merged'[i])
            /\ Candidates # {} => DuplicateAfterMerge(Anchor, Arriving) = Arriving
            /\ dd_places' = dd_places]_vars

\* "b" (no price level) has taken "a" (price level 2): its rating and
\* provenance have changed, its name, coordinates and price level have not
C22_Witness ==
    /\ DedupeReturned
    /\ Len(dd_places) = 2
    /\ dd_places[2].price_level = Some(2)
    /\ Len(dd_merged) = 1
    /\ dd_merged[1].rating # dd_places[1].rating
    /\ dd_merged[1].merged_raw = << [id |-> "b"], [id |-> "a"] >>
    /\ Identity(dd_merged[1]) = Identity(dd_places[1])
    /\ dd_merged[1].price_level = None

\* ======================================================================
\* Further properties of compute_scores
\* ======================================================================
\* the distance term of a scored place, as a numerator over max(1, 2 * radius)
DistTerm(p, q) == DistancePenaltyNum(Val(p.distance_m), Max(1, 2 * q.radius_m))
InRange(p) ==
    /\ ~IsNone(p.confidence) /\ Val(p.confidence) \in 0..1000
    /\ ~IsNone(p.distance_m) /\ Val(p.distance_m) \in Nat

\* C23 as stated: confidence in [0, 1], distance_m a non-negative integer, the
\* distance term never negative, and 0 whenever the distance is at least
\* twice the radius, for every radius >= 0.
C23_TermZeroFromTwiceRadius ==
    Scored_ =>
        \A j \in 1..Len(Ranked) :
            /\ InRange(Ranked[j])
            /\ DistTerm(Ranked[j], Val(sc_query)) >= 0
            /\ AtLeastMetres(Ranked[j], Val(sc_query), 2 * Val(sc_query).radius_m)
                  => DistTerm(Ranked[j], Val(sc_query)) = 0

\* C23 amended: confidence in [0, 1], distance_m a non-negative integer, the
\* distance term never negative, and 0 whenever the distance is at least
\* max(1, 2 * radius) metres: twice the radius for a radius >= 1, 1 m for
\* radius 0.
C23_TermZeroFromDivisor ==
    Scored_ =>
        \A j \in 1..Len(Ranked) :
            /\ InRange(Ranked[j])
            /\ DistTerm(Ranked[j], Val(sc_query)) >= 0
            /\ AtLeastMetres(Ranked[j], Val(sc_query), Max(1, 2 * Val(sc_query).radius_m))
                  => DistTerm(Ranked[j], Val(sc_query)) = 0

\* a query of radius 0 with one place at its centre, whose distance term is
\* not 0, and one 300 m away, whose distance term is 0
C23_Witness ==
    /\ Scored_
    /\ Val(sc_query).radius_m = 0
    /\ \E j, k \in 1..Len(Ranked) :
          /\ CentreDistSq(Ranked[j], Val(sc_query)) = 0
          /\ Ranked[j].distance_m = Some(0)
          /\ DistTerm(Ranked[j], Val(sc_query)) = 1
          /\ AtLeastMetres(Ranked[k], Val(sc_query), 1)
          /\ DistTerm(Ranked[k], Val(sc_query)) = 0
          /\ InRange(Ranked[j]) /\ InRange(Ranked[k])

\* ======================================================================
\* Further properties of run_agent_search
\* ======================================================================
\* C24: at every point of a call, hence at its return, the caller's query has
\* the lat, lon, budget_min, budget_max, cuisines, dietary_restrictions,
\* preferred_sources, limit_per_source and expand_on_insufficient_results it
\* had at the call, and while no expansion has occurred its radius_m too.
C24_OnlyRadiusChanges ==
    /\ user_query.lat = query_at_call.lat
    /\ user_query.lon = query_at_call.lon
    /\ user_query.budget_min = query_at_call.budget_min
    /\ user_query.budget_max = query_at_call.budget_max
    /\ user_query.cuisines = query_at_call.cuisines
    /\ user_query.dietary_restrictions = query_at_call.dietary_restrictions
    /\ user_query.preferred_sources = query_at_call.preferred_sources
    /\ user_query.limit_per_source = query_at_call.limit_per_source
    /\ user_query.expand_on_insufficient_results = query_at_call.expand_on_insufficient_results
    /\ expansions = 0 => user_query.radius_m = query_at_call.radius_m

\* a call without preferred sources or filters has returned after one
\* expansion, 800 -> 1200, with every other field as passed
C24_Witness ==
    /\ Done
    /\ expansions = 1
    /\ query_at_call.radius_m = 800
    /\ user_query.radius_m = 1200
    /\ query_at_call.preferred_sources = None
    /\ query_at_call.cuisines = None
    /\ [user_query EXCEPT !.radius_m = 800] = query_at_call

\* ======================================================================
\* dedupe_and_merge on its own output
\* ======================================================================
\* two places count as duplicates of each other
DuplicatePair(x, y) == Sim(x, y) >= Sim85 /\ DistSq(x, y) < Dist40Sq

\* C25: no two distinct anchors of the merged list are duplicates of each
\* other (similarity >= 85 and distance < 40 m), during the call and at its
\* return; and dedupe_and_merge applied to the list it returned gives the same
\* list, nothing merged.
C25_NoDuplicateLeft ==
    /\ \A i, j \in 1..Len(dd_merged) :
          i # j => ~DuplicatePair(dd_merged[i], dd_merged[j])
    /\ DedupeReturned => dedupe_and_merge(dd_merged) = dd_merged

\* "a" and "d" carry the same name exactly 40 m apart and are both anchors;
\* "b", within 40 m of both, has been merged into "a"
C25_Witness ==
    /\ DedupeReturned
    /\ Len(dd_places) = 3
    /\ Len(dd_merged) = 2
    /\ dd_merged[1].source_id = "a"
    /\ dd_merged[2].source_id = "d"
    /\ Len(dd_merged[1].merged_raw) = 2
    /\ Sim(dd_merged[1], dd_merged[2]) = 10000
    /\ DistSq(dd_merged[1], dd_merged[2]) = Dist40Sq
    /\ dedupe_and_merge(dd_merged) = dd_merged

\* ======================================================================
\* The widening of the radius
\* ======================================================================
\* C26: for a positive initial radius every pass through the loop body leaves
\* radius_m greater than it was.
C26_RadiusGrows ==
    [][(EntersLoopBody /\ query_at_call.radius_m > 0)
          => user_query'.radius_m > user_query.radius_m]_vars

====
